---- MODULE Spec2Model ----
(***************************************************************************)
(* Model of src/nmpi/nmpi_saga.py: the JobRunner cycle (retrieve, submit,  *)
(* wait), the status functions, the output harvest and the queue client    *)
(* operations update_job, kill_job and reset_job.                          *)
(*                                                                         *)
(* A client of JobRunner calls next(), or calls submit_jobs or             *)
(* wait_on_completion with a list of its own (both are public methods with *)
(* a list parameter).  The queue server, the SAGA backend and the file     *)
(* system are the environment: their answers are nondeterministic choices. *)
(* SpecFunctions is a client that calls the module-level functions         *)
(* (truncate_string, the status functions, _find_new_data_files) directly. *)
(***************************************************************************)
EXTENDS Integers, Sequences, FiniteSets, TLC

\* ------------------------------------------------------------------ bounds
MaxJobs == 2        \* jobs known to the queue server
MaxFetch == 3       \* get_next_job answers remembered per cycle
MaxResets == 2      \* operator interventions (reset_job / kill_job) per run
MaxFiles == 2       \* files in a job's working directory
MaxLen == 6         \* length of a string handed to truncate_string
MaxSize == 5        \* max_length handed to truncate_string

JobIds == 1..MaxJobs

\* --------------------------------------------------------- program constants
MAX_LOG_SIZE == 10000

\* ------------------------------------------------------------------ strings
\* A text is a sequence of pieces; a piece is a slice [lo, hi) of a named
\* source text, so that len() and slicing are computed, not assumed.
Piece(src, lo, hi) == [src |-> src, lo |-> lo, hi |-> hi]

\* A log line whose own length plays no role (it carries a timestamp).
Line(tag) == Piece(tag, 0, 0)

PieceLen(p) == p.hi - p.lo

RECURSIVE TextLen(_)
TextLen(t) == IF t = <<>> THEN 0 ELSE PieceLen(Head(t)) + TextLen(Tail(t))

\* "\n\n... truncated...\n\n"
TRUNCATION_MARKER == Piece("\n\n... truncated...\n\n", 0, 20)

\* Python: stream[:k] for k >= 0
SliceTo(stream, k) ==
    Piece(stream.src, stream.lo,
          IF stream.lo + k < stream.hi THEN stream.lo + k ELSE stream.hi)

\* Python: stream[n:] for n <= 0: n = 0 is the whole string, n < 0 the last -n
SliceFromNeg(stream, n) ==
    IF n = 0 THEN stream
    ELSE Piece(stream.src,
               IF stream.hi + n > stream.lo THEN stream.hi + n ELSE stream.lo,
               stream.hi)

\* Python floor division by 2, also of negative numbers
FloorDiv2(n) == IF n >= 0 THEN n \div 2 ELSE -((-n + 1) \div 2)

truncate_string(stream, max_length) ==
    IF PieceLen(stream) > max_length
    THEN << SliceTo(stream, FloorDiv2(max_length)),
            TRUNCATION_MARKER,
            SliceFromNeg(stream, FloorDiv2(-max_length)) >>
    ELSE << stream >>

\* --------------------------------------------------------------- job records
\* The fields of an nmpi_job dict that the code reads or writes.
\* terminal_fields: timestamp_completion, resource_usage and provenance set.
NewJob ==
    [status |-> "submitted", log |-> <<>>, output_data |-> <<>>,
     terminal_fields |-> FALSE]

\* saga job states; "none": no saga job exists for the nmpi job
PENDING == "Pending"
RUNNING == "Running"
DONE == "Done"
FAILED == "Failed"
CANCELED == "Canceled"

\* --------------------------------------------------------------------- state
VARIABLES
    pc,             \* position of the JobRunner client
    method,         \* the JobRunner method the client called
    exc,            \* the exception that escaped the method, or "none"
    qstatus,        \* queue server: status of each job ("absent": unknown job)
    trace,          \* per job: the job PUTs (by status), harvests and kills so far
    fetched,        \* answers of get_next_job in this cycle (0: no job)
    pending_jobs,   \* retrieve_pending_jobs: its local list
    pending_nmpi_jobs, \* submit_jobs: its argument (job ids)
    sidx,           \* submit_jobs: position of the for loop
    saga_jobs,      \* the list submit_jobs builds and wait_on_completion polls
    idx,            \* wait_on_completion: position of the for loop
    nmpi_jobs,      \* the client's job dicts, per job id
    saga_state,     \* backend: state of each job's saga job
    last,           \* the most recent step that handled a job, and its effects
    ops,            \* operator interventions so far
    call            \* the last direct call of a module-level function

vars == << pc, method, exc, qstatus, trace, fetched, pending_jobs,
           pending_nmpi_jobs, sidx, saga_jobs, idx, nmpi_jobs, saga_state,
           last, ops, call >>

\* op: the method that handled the job; pre: the job's status before;
\* polled: the saga state the poll saw; harvest: "none" (not run), "ok" or
\* the step that failed; files: the files it selected; before: output_data
\* before it; killed: the message
\* kill_job was called with; sent: the PUT requests that reached the server;
\* raised: the exception that escaped; steps: the steps run() performed.
NoStep ==
    [op |-> "none", job |-> 0, pre |-> "none", polled |-> "none",
     harvest |-> "none", files |-> <<>>, before |-> <<>>,
     killed |-> "none", sent |-> <<>>, raised |-> "none", steps |-> <<>>]

\* fn: the function called; args: its arguments; result: what it returned;
\* again: what the function returned when called once more on its result
NoCall == [fn |-> "none", args |-> <<>>, result |-> <<>>, again |-> <<>>]

\* The queue holds the jobs 1..n, all submitted, oldest first.
Init ==
    /\ pc = "idle"
    /\ method = "none"
    /\ exc = "none"
    /\ \E n \in 0..MaxJobs :
          qstatus = [j \in JobIds |-> IF j <= n THEN "submitted" ELSE "absent"]
    /\ trace = [j \in JobIds |-> <<>>]
    /\ fetched = <<>>
    /\ pending_jobs = <<>>
    /\ pending_nmpi_jobs = <<>>
    /\ sidx = 1
    /\ saga_jobs = <<>>
    /\ idx = 1
    /\ nmpi_jobs = [j \in JobIds |-> NewJob]
    /\ saga_state = [j \in JobIds |-> "none"]
    /\ last = NoStep
    /\ ops = 0
    /\ call = NoCall

\* ------------------------------------------------------------- queue client
Min(S) == CHOOSE x \in S : \A y \in S : x <= y

InSeq(x, s) == \E i \in 1..Len(s) : s[i] = x

\* HardwareClient.get_next_job: the oldest submitted job, or None (0)
get_next_job(q) ==
    LET submitted == {j \in JobIds : q[j] = "submitted"} IN
    IF submitted = {} THEN 0 ELSE Min(submitted)

\* a PUT of the job record, and a PUT of log content
JobPut(job) ==
    [res |-> "job", status |-> job.status, output_data |-> job.output_data,
     content |-> <<>>]
LogPut(content) ==
    [res |-> "log", status |-> "-", output_data |-> <<>>, content |-> content]

Remember(h, x) == IF Len(h) < MaxFetch THEN Append(h, x) ELSE h

\* ------------------------------------------------------------------- next()
\* JobRunner.next, line 499: enters retrieve_pending_jobs
CallNext ==
    /\ pc = "idle"
    /\ pc' = "retrieve"
    /\ method' = "next"
    /\ pending_jobs' = <<>>
    /\ fetched' = <<>>
    /\ UNCHANGED << exc, qstatus, trace, pending_nmpi_jobs, sidx, saga_jobs,
                    idx, nmpi_jobs, saga_state, last, ops,
                    call >>

\* JobRunner.retrieve_pending_jobs: one pass of the while loop; on break the
\* list is returned to next(), which hands it to submit_jobs.
RetrieveStep ==
    /\ pc = "retrieve"
    /\ LET job == get_next_job(qstatus) IN
       /\ fetched' = Remember(fetched, job)
       /\ IF job = 0 \/ InSeq(job, pending_jobs)
          THEN /\ pc' = "submit"
               /\ pending_nmpi_jobs' = pending_jobs
               /\ sidx' = 1
               /\ saga_jobs' = <<>>
          ELSE /\ pc' = "retrieve"
               /\ UNCHANGED << pending_nmpi_jobs, sidx, saga_jobs >>
    /\ UNCHANGED << method, exc, qstatus, trace, pending_jobs, idx, nmpi_jobs,
                    saga_state, last, ops,
                    call >>

\* --------------------------------------------------------- status functions
NL2 == Piece("\n\n", 0, 2)
FAILED_SEPARATOR == Piece("\n\nstdout\n------\n\n", 0, 17)

\* read_output: the two captured streams, or two empty strings on IOError
read_output(stdoutLen, stderrLen, ioError) ==
    IF ioError
    THEN [stdout |-> Piece("stdout", 0, 0), stderr |-> Piece("stderr", 0, 0)]
    ELSE [stdout |-> Piece("stdout", 0, stdoutLen),
          stderr |-> Piece("stderr", 0, stderrLen)]

\* a variant that writes the Job ID line only into an empty log
job_pending_IdOnce(job) ==
    [job EXCEPT !.status = "submitted",
                !.log = job.log
                          \o (IF job.log = <<>> THEN << Line("Job ID") >>
                              ELSE <<>>)
                          \o << Line("pending") >>]

job_pending(job) ==
    [job EXCEPT !.status = "submitted",
                !.log = job.log \o << Line("Job ID"), Line("pending") >>]

\* a variant that replaces the log by the new line
job_running_ReplacesLog(job) ==
    [job EXCEPT !.status = "running", !.log = << Line("running") >>]

job_running(job) ==
    [job EXCEPT !.status = "running",
                !.log = job.log \o << Line("running") >>]

\* a variant that writes the stderr section before the stdout section
DoneBlock_StderrFirst(out) ==
    << Line("finished"), NL2 >> \o truncate_string(out.stderr, MAX_LOG_SIZE)
        \o << NL2 >> \o truncate_string(out.stdout, MAX_LOG_SIZE)

DoneBlock(out) ==
    << Line("finished"), NL2 >> \o truncate_string(out.stdout, MAX_LOG_SIZE)
        \o << NL2 >> \o truncate_string(out.stderr, MAX_LOG_SIZE)

job_done(job, out) ==
    [job EXCEPT !.status = "finished",
                !.terminal_fields = TRUE,
                !.log = job.log \o DoneBlock(out)]

\* a variant that appends the captured stderr whole
FailedBlock_RawStderr(out) ==
    << Line("failed") >> \o truncate_string(out.stdout, MAX_LOG_SIZE)
        \o << FAILED_SEPARATOR, out.stderr >>

FailedBlock(out) ==
    << Line("failed") >> \o truncate_string(out.stdout, MAX_LOG_SIZE)
        \o << FAILED_SEPARATOR >> \o truncate_string(out.stderr, MAX_LOG_SIZE)

job_failed(job, out) ==
    [job EXCEPT !.status = "error",
                !.log = job.log \o FailedBlock(out)]

\* default_job_states: the saga states that have a status function
default_job_states == {PENDING, RUNNING, DONE, FAILED}

set_status(state, job, out) ==
    CASE state = PENDING -> job_pending(job)
      [] state = RUNNING -> job_running(job)
      [] state = DONE -> job_done(job, out)
      [] state = FAILED -> job_failed(job, out)

\* ------------------------------------------------- update_job, kill_job, reset
\* Every operation below returns the job dict as it leaves it, the PUT
\* requests that reached the server, and the exception it raised ("none").
\* put: "ok", "job_put_fails" (first _put raises) or "log_put_fails".

\* a variant that reads the log with job.get instead of job.pop
update_job_KeepsLog(job, put) ==
    IF put = "job_put_fails"
    THEN [job |-> job, sent |-> <<>>, exc |-> "PutFailed"]
    ELSE IF job.log = <<>>
    THEN [job |-> job, sent |-> << JobPut(job) >>, exc |-> "none"]
    ELSE IF put = "log_put_fails"
    THEN [job |-> job, sent |-> << JobPut(job) >>, exc |-> "PutFailed"]
    ELSE [job |-> job, sent |-> << JobPut(job), LogPut(job.log) >>,
          exc |-> "none"]

update_job(job, put) ==
    LET popped == [job EXCEPT !.log = <<>>] IN
    IF put = "job_put_fails"
    THEN [job |-> popped, sent |-> <<>>, exc |-> "PutFailed"]
    ELSE IF job.log = <<>>
    THEN [job |-> popped, sent |-> << JobPut(popped) >>, exc |-> "none"]
    ELSE IF put = "log_put_fails"
    THEN [job |-> popped, sent |-> << JobPut(popped) >>, exc |-> "PutFailed"]
    ELSE [job |-> popped, sent |-> << JobPut(popped), LogPut(job.log) >>,
          exc |-> "none"]

INTERNAL_ERROR == Piece("Internal error. Please resubmit the job\n", 0, 40)

KillableStatus == {"running", "submitted"}

\* a variant without the test of the status at line 211
kill_job_Unguarded(job, error_message, put) ==
    LET marked == [job EXCEPT !.status = "error", !.log = <<>>]
        log == job.log \o << INTERNAL_ERROR, Line(error_message) >>
    IN  IF put = "job_put_fails"
        THEN [job |-> marked, sent |-> <<>>, exc |-> "PutFailed"]
        ELSE IF put = "log_put_fails"
        THEN [job |-> marked, sent |-> << JobPut(marked) >>,
              exc |-> "PutFailed"]
        ELSE [job |-> marked, sent |-> << JobPut(marked), LogPut(log) >>,
              exc |-> "none"]

\* a variant that pushes the given message without the operator message
kill_job_MessageOnly(job, error_message, put) ==
    IF job.status \notin KillableStatus
    THEN [job |-> job, sent |-> <<>>, exc |-> "CannotKill"]
    ELSE LET marked == [job EXCEPT !.status = "error", !.log = <<>>]
             log == job.log \o << Line(error_message) >>
         IN  IF put = "job_put_fails"
             THEN [job |-> marked, sent |-> <<>>, exc |-> "PutFailed"]
             ELSE IF put = "log_put_fails"
             THEN [job |-> marked, sent |-> << JobPut(marked) >>,
                   exc |-> "PutFailed"]
             ELSE [job |-> marked, sent |-> << JobPut(marked), LogPut(log) >>,
                   exc |-> "none"]

kill_job(job, error_message, put) ==
    IF job.status \notin KillableStatus
    THEN [job |-> job, sent |-> <<>>, exc |-> "CannotKill"]
    ELSE LET marked == [job EXCEPT !.status = "error", !.log = <<>>]
             log == job.log \o << INTERNAL_ERROR, Line(error_message) >>
         IN  IF put = "job_put_fails"
             THEN [job |-> marked, sent |-> <<>>, exc |-> "PutFailed"]
             ELSE IF put = "log_put_fails"
             THEN [job |-> marked, sent |-> << JobPut(marked) >>,
                   exc |-> "PutFailed"]
             ELSE [job |-> marked, sent |-> << JobPut(marked), LogPut(log) >>,
                   exc |-> "none"]

RESET_LINE == Piece("reset status to 'submitted'\n", 0, 28)

reset_job(job) ==
    LET again == [job EXCEPT !.status = "submitted"] IN
    [job |-> again, sent |-> << LogPut(<< RESET_LINE >>), JobPut(again) >>,
     exc |-> "none"]

PutOutcomes == {"ok", "job_put_fails", "log_put_fails"}

\* a variant that catches the exception of update_job
_update_status_Swallows(job, state, out, put) ==
    IF state \notin default_job_states
    THEN [job |-> job, sent |-> <<>>, exc |-> "KeyError"]
    ELSE [update_job(set_status(state, job, out), put) EXCEPT !.exc = "none"]

\* JobRunner._update_status: saga_state is what get_state() answers
_update_status(job, state, out, put) ==
    IF state \notin default_job_states
    THEN [job |-> job, sent |-> <<>>, exc |-> "KeyError"]
    ELSE update_job(set_status(state, job, out), put)

\* the status of the server's record after it received the PUTs in sent
RECURSIVE StatusAfter(_, _)
StatusAfter(status, sent) ==
    IF sent = <<>> THEN status
    ELSE StatusAfter(IF Head(sent).res = "job" THEN Head(sent).status
                     ELSE status, Tail(sent))

\* ------------------------------------------------------------------ harvest
\* A file of a working directory: its name, the directories above it
\* (relative to the root), its extension, and its mtime relative to the
\* saga job's start_time.
File(name, dirs, ext, mtime) ==
    [name |-> name, dirs |-> dirs, ext |-> ext, mtime |-> mtime]

AllFiles ==
    { File(1, <<>>, ".dat", 0),
      File(2, <<>>, ".dat", -1),
      File(3, << ".git" >>, ".dat", 1),
      File(4, <<>>, ".pyc", 1),
      File(5, << "sub" >>, ".dat", 1),
      File(6, << "sub", ".svn" >>, ".dat", 1) }

Trees == {t \in SUBSET AllFiles : Cardinality(t) <= MaxFiles}

ignoredirs == {".smt", ".hg", ".svn", ".git", ".bzr"}
ignore_extensions == {".pyc"}

RECURSIVE SortedNames(_)
SortedNames(S) ==
    IF S = {} THEN <<>>
    ELSE LET m == Min(S) IN << m >> \o SortedNames(S \ {m})

\* the file of the tree with the given name
FileNamed(tree, name) == CHOOSE f \in tree : f.name = name

\* line 266: os.walk gives the directory of a file as the root joined with
\* the directories above the file; root[length_root:] cuts the root and one
\* separator off it, and the file's name is joined to the rest
relative_path(root, f) == Tail(<< root >> \o f.dirs) \o << f.name >>

RECURSIVE RelativePaths(_, _, _)
RelativePaths(root, tree, names) ==
    IF names = <<>> THEN <<>>
    ELSE << relative_path(root, FileNamed(tree, Head(names))) >>
             \o RelativePaths(root, tree, Tail(names))

\* a variant that compares the file's time with > instead of >=
_find_new_data_files_Strict(tree, timestamp) ==
    RelativePaths("root", tree, SortedNames({f.name : f \in
        {g \in tree :
            /\ \A i \in 1..Len(g.dirs) : g.dirs[i] \notin ignoredirs
            /\ g.ext \notin ignore_extensions
            /\ g.mtime > timestamp}}))

\* _find_new_data_files: os.walk never descends into an ignored directory
_find_new_data_files(tree, timestamp) ==
    RelativePaths("root", tree, SortedNames({f.name : f \in
        {g \in tree :
            /\ \A i \in 1..Len(g.dirs) : g.dirs[i] \notin ignoredirs
            /\ g.ext \notin ignore_extensions
            /\ g.mtime >= timestamp}}))

Prefix(s, n) == SubSeq(s, 1, n)

\* one working directory for each result _find_new_data_files can give
HarvestTrees ==
    { CHOOSE t \in Trees : _find_new_data_files(t, 0) = found :
        found \in { _find_new_data_files(u, 0) : u \in Trees } }

\* how a harvest can go: at = 0 for the steps that are not per file
HarvestOutcomes(new_files) ==
    { [kind |-> k, at |-> 0] : k \in {"ok", "makedirs", "update_job"} }
    \cup { [kind |-> k, at |-> i] :
             k \in {"copy", "create_data_item"}, i \in 1..Len(new_files) }

\* JobRunner._handle_output_data: err is its return value ("none": None)
_handle_output_data(job, tree, start_time, how) ==
    LET new_files == _find_new_data_files(tree, start_time) IN
    IF how.kind \in {"makedirs", "copy"}
    THEN [job |-> job, sent |-> <<>>, err |-> how.kind, files |-> new_files]
    ELSE IF how.kind = "create_data_item"
    THEN [job |-> [job EXCEPT !.output_data =
                        job.output_data \o Prefix(new_files, how.at - 1)],
          sent |-> <<>>, err |-> how.kind, files |-> new_files]
    ELSE LET posted == [job EXCEPT !.output_data =
                                 job.output_data \o new_files]
             u == update_job(posted,
                             IF how.kind = "update_job" THEN "job_put_fails"
                             ELSE "ok")
         IN  [job |-> u.job, sent |-> u.sent,
              err |-> IF u.exc = "none" THEN "none" ELSE "update_job",
              files |-> new_files]

\* ---------------------------------------------------------- JobRunner.run
\* Python values that run() passes around: a job dict or a path string.
JobDict(j) == [type |-> "dict", id |-> j]
PathStr(j) == [type |-> "str", id |-> j]

PyNNVersions == {"0.7", "0.8", "0.9"}
StepOutcomes == {"ok", "fails"}

\* _build_job_description: raises ValueError for an unsupported PyNN version
_build_job_description(j, pyNN_version) ==
    [working_directory |-> PathStr(j),
     exc |-> IF pyNN_version \in {"0.7", "0.8"} THEN "none" ELSE "ValueError"]

\* get_code(working_directory, nmpi_job, script_name): line 306 reads
\* nmpi_job['code'] outside any try block; indexing a str with a str key
\* raises TypeError.  Otherwise the result is None or an error message.
get_code(working_directory, nmpi_job, outcome) ==
    IF nmpi_job.type # "dict"
    THEN [err |-> "none", exc |-> "TypeError"]
    ELSE [err |-> IF outcome = "ok" THEN "none" ELSE "get_code", exc |-> "none"]

\* get_input_data: None or an error message, never raises
get_input_data(nmpi_job, working_directory, outcome) ==
    IF outcome = "ok" THEN "none" ELSE "get_input_data"

\* a step of run() and whether it succeeded
Step(name, ok) == [step |-> name, ok |-> ok]

\* JobRunner.run, lines 517-549: what follows the job description.
\* Line 518 calls get_code(nmpi_job, job_desc.working_directory, ...).
provision_and_start(j, job_desc, env, steps) ==
    LET code == get_code(JobDict(j), job_desc.working_directory, env.code)
        input == get_input_data(JobDict(j), job_desc.working_directory,
                                env.input)
        s1 == Append(steps,
                     Step("get_code", code.exc = "none" /\ code.err = "none"))
        s2 == Append(s1, Step("get_input_data", input = "none"))
        s3 == Append(s2, Step("create_job", env.create = "ok"))
        s4 == Append(s3, Step("start_time", TRUE))
        s5 == Append(s4, Step("run", env.start = "ok"))
    IN
    IF code.exc # "none"
    THEN [saga |-> FALSE, err |-> "", exc |-> code.exc, steps |-> s1]
    ELSE IF code.err # "none"
    THEN [saga |-> FALSE, err |-> "Failed to obtain source code",
          exc |-> "none", steps |-> s1]
    ELSE IF input # "none"
    THEN [saga |-> FALSE, err |-> "Failed to download input data.",
          exc |-> "none", steps |-> s2]
    ELSE IF env.create # "ok"
    THEN [saga |-> FALSE, err |-> "Failed to create job on cluster",
          exc |-> "none", steps |-> s3]
    ELSE IF env.start # "ok"
    THEN [saga |-> FALSE, err |-> "Failed to run saga job", exc |-> "none",
          steps |-> s5]
    ELSE [saga |-> TRUE, err |-> "", exc |-> "none", steps |-> s5]

\* a variant that goes on after a failed _build_job_description
run_IgnoresBuildFailure(j, env) ==
    LET job_desc == _build_job_description(j, env.pyNN) IN
    provision_and_start(j, job_desc, env,
                        << Step("build", job_desc.exc = "none") >>)

\* JobRunner.run: saga says whether a started saga job is returned, err is
\* the message ("": success), exc the exception that escapes, steps the
\* steps performed, in order.
run(j, env) ==
    LET job_desc == _build_job_description(j, env.pyNN) IN
    IF job_desc.exc # "none"
    THEN [saga |-> FALSE, err |-> "Failed to build job description",
          exc |-> "none", steps |-> << Step("build", FALSE) >>]
    ELSE provision_and_start(j, job_desc, env, << Step("build", TRUE) >>)

RunEnvs ==
    [pyNN : PyNNVersions, code : StepOutcomes, input : StepOutcomes,
     create : StepOutcomes, start : StepOutcomes]

StreamLens == {MAX_LOG_SIZE, MAX_LOG_SIZE + 1}

\* what read_output can return
Outputs ==
    { read_output(so, se, io) :
        so \in StreamLens, se \in StreamLens, io \in BOOLEAN }

\* saga_job.start_time, the origin of the file times
start_time == 0

\* ------------------------------------------------------------- submit_jobs
\* the statuses of the job PUTs among the requests in sent
RECURSIVE PutStatuses(_)
PutStatuses(sent) ==
    IF sent = <<>> THEN <<>>
    ELSE (IF Head(sent).res = "job" THEN << Head(sent).status >> ELSE <<>>)
         \o PutStatuses(Tail(sent))

\* What one step leaves behind for job j: its dict, the events of the step
\* (PUTs, harvest, kill), the step's record.  An exception ends the method.
Commit(j, job, events, step) ==
    /\ nmpi_jobs' = [nmpi_jobs EXCEPT ![j] = job]
    /\ trace' = [trace EXCEPT ![j] = @ \o events]
    /\ qstatus' = [qstatus EXCEPT ![j] = StatusAfter(@, step.sent)]
    /\ last' = [step EXCEPT !.job = j, !.pre = nmpi_jobs[j].status]
    /\ exc' = step.raised
    /\ pc' = IF step.raised = "none" THEN pc ELSE "raised"

\* the jobs the queue lists as submitted, oldest first
SubmittedJobs(q) == SortedNames({j \in JobIds : q[j] = "submitted"})

\* a client calls submit_jobs(pending_jobs) with the submitted jobs
CallSubmitJobs ==
    /\ pc = "idle"
    /\ pc' = "submit"
    /\ method' = "submit_jobs"
    /\ pending_nmpi_jobs' = SubmittedJobs(qstatus)
    /\ sidx' = 1
    /\ saga_jobs' = <<>>
    /\ UNCHANGED << exc, qstatus, trace, fetched, pending_jobs, idx, nmpi_jobs,
                    saga_state, last, ops,
                    call >>

\* JobRunner.submit_jobs: one pass of the for loop, lines 457-463
SubmitStep ==
    /\ pc = "submit"
    /\ sidx <= Len(pending_nmpi_jobs)
    /\ LET j == pending_nmpi_jobs[sidx] IN
       \E env \in RunEnvs :
         LET r == run(j, env)
             SubmitRecord == [NoStep EXCEPT !.op = "submit_jobs",
                                            !.steps = r.steps] IN
         IF r.exc # "none"
         THEN /\ Commit(j, nmpi_jobs[j], <<>>,
                        [SubmitRecord EXCEPT !.raised = r.exc])
              /\ UNCHANGED << saga_jobs, saga_state >>
         ELSE IF r.err # ""
         THEN \E put \in PutOutcomes :
                LET k == kill_job(nmpi_jobs[j], r.err, put) IN
                /\ Commit(j, k.job, << "kill_job" >> \o PutStatuses(k.sent),
                          [SubmitRecord EXCEPT !.killed = r.err,
                                               !.sent = k.sent,
                                               !.raised = k.exc])
                /\ UNCHANGED << saga_jobs, saga_state >>
         ELSE \E s0 \in {PENDING, RUNNING, DONE, FAILED, CANCELED},
                 out \in Outputs, put \in PutOutcomes :
                LET u == _update_status(nmpi_jobs[j], s0, out, put) IN
                /\ Commit(j, u.job, PutStatuses(u.sent),
                          [SubmitRecord EXCEPT !.polled = s0,
                                               !.sent = u.sent,
                                               !.raised = u.exc])
                /\ saga_state' = [saga_state EXCEPT ![j] = s0]
                /\ saga_jobs' = IF u.exc = "none" THEN Append(saga_jobs, j)
                                ELSE saga_jobs
    /\ sidx' = sidx + 1
    /\ UNCHANGED << method, fetched, pending_jobs, pending_nmpi_jobs, idx, ops,
                    call >>

\* submit_jobs returns saga_jobs (line 464); next() hands it to
\* wait_on_completion (line 501)
SubmitReturn ==
    /\ pc = "submit"
    /\ sidx > Len(pending_nmpi_jobs)
    /\ pc' = IF method = "next" THEN "wait_head" ELSE "returned"
    /\ idx' = 1
    /\ UNCHANGED << method, exc, qstatus, trace, fetched, pending_jobs,
                    pending_nmpi_jobs, sidx, saga_jobs, nmpi_jobs, saga_state,
                    last, ops,
                    call >>

\* ------------------------------------------------------ wait_on_completion
\* the attributes of a saga job object that the code may read
SagaJobAttributes ==
    {"id", "start_time", "wait", "get_state", "get_description", "run"}

\* reading saga_job.<name>
saga_job_attribute(name) ==
    IF name \in SagaJobAttributes THEN "ok" ELSE "AttributeError"

\* Python: lst is [] compares the identity of lst with a new list object
IsNewEmptyList(lst) == FALSE

\* Python: list.remove(x) deletes the first element equal to x
RECURSIVE RemoveFirst(_, _)
RemoveFirst(lst, x) ==
    IF lst = <<>> THEN <<>>
    ELSE IF Head(lst) = x THEN Tail(lst)
    ELSE << Head(lst) >> \o RemoveFirst(Tail(lst), x)

\* A client calls wait_on_completion(pending_jobs) with the list that
\* submit_jobs is written to return: for each submitted job a tuple
\* (nmpi_job, saga_job) as lines 462-463 leave it, s0[j] being the saga
\* state that _update_status read right after the submission.  (run()
\* raises at line 518 before submit_jobs builds such a tuple itself.)
CallWaitOnCompletion ==
    /\ pc = "idle"
    /\ pc' = "wait_head"
    /\ method' = "wait_on_completion"
    /\ saga_jobs' = SubmittedJobs(qstatus)
    /\ idx' = 1
    /\ \E s0 \in [JobIds -> default_job_states] :
         LET entry(j) == _update_status(nmpi_jobs[j], s0[j],
                                        read_output(0, 0, FALSE), "ok")
             listed(j) == qstatus[j] = "submitted" IN
         /\ \A j \in JobIds : ~listed(j) => s0[j] = PENDING
         /\ nmpi_jobs' = [j \in JobIds |->
                IF listed(j) THEN entry(j).job ELSE nmpi_jobs[j]]
         /\ trace' = [j \in JobIds |->
                IF listed(j) THEN trace[j] \o PutStatuses(entry(j).sent)
                ELSE trace[j]]
         /\ qstatus' = [j \in JobIds |->
                IF listed(j) THEN StatusAfter(qstatus[j], entry(j).sent)
                ELSE qstatus[j]]
         /\ saga_state' = [j \in JobIds |->
                IF listed(j) THEN s0[j] ELSE saga_state[j]]
    /\ UNCHANGED << exc, fetched, pending_jobs, pending_nmpi_jobs, sidx, last,
                    ops,
                    call >>

\* wait_on_completion, lines 470-473: the test of the while loop, then the
\* for loop starts over the list
WaitRound ==
    /\ pc = "wait_head"
    /\ IF IsNewEmptyList(saga_jobs)
       THEN pc' = "returned"
       ELSE pc' = "wait_for"
    /\ idx' = 1
    /\ UNCHANGED << method, exc, qstatus, trace, fetched, pending_jobs,
                    pending_nmpi_jobs, sidx, saga_jobs, nmpi_jobs, saga_state,
                    last, ops,
                    call >>

\* the for loop is exhausted: back to the while loop
WaitRoundEnd ==
    /\ pc = "wait_for"
    /\ idx > Len(saga_jobs)
    /\ pc' = "wait_head"
    /\ UNCHANGED << method, exc, qstatus, trace, fetched, pending_jobs,
                    pending_nmpi_jobs, sidx, saga_jobs, idx, nmpi_jobs,
                    saga_state, last, ops,
                    call >>

\* lines 491-492: remove the tuple, then _update_status (which reads the
\* saga state again)
Terminal(j, job, events, step) ==
    \E out \in Outputs, put \in PutOutcomes :
        LET u == _update_status(job, saga_state[j], out, put) IN
        /\ Commit(j, u.job, events \o PutStatuses(u.sent),
                  [step EXCEPT !.sent = step.sent \o u.sent,
                               !.raised = u.exc])
        /\ saga_jobs' = RemoveFirst(saga_jobs, j)

\* wait_on_completion: one pass of the for loop, lines 473-492
WaitPollStep ==
    /\ pc = "wait_for"
    /\ idx <= Len(saga_jobs)
    /\ LET j == saga_jobs[idx]
           state == saga_state[j]
           polled == [NoStep EXCEPT !.op = "wait_on_completion",
                                    !.polled = state,
                                    !.before = nmpi_jobs[j].output_data]
       IN
       IF state = DONE
       THEN \E tree \in HarvestTrees :
            \E how \in HarvestOutcomes(_find_new_data_files(tree, start_time)) :
              LET h == _handle_output_data(nmpi_jobs[j], tree, start_time, how)
                  harvested == [polled EXCEPT
                           !.harvest = IF h.err = "none" THEN "ok" ELSE h.err,
                           !.files = h.files,
                           !.before = nmpi_jobs[j].output_data,
                           !.sent = h.sent]
              IN  IF h.err # "none"
                  THEN \E put \in PutOutcomes :
                         LET k == kill_job(h.job, h.err, put) IN
                         /\ Commit(j, k.job,
                                   PutStatuses(h.sent)
                                     \o << "harvest_failed", "kill_job" >>
                                     \o PutStatuses(k.sent),
                                   [harvested EXCEPT !.killed = h.err,
                                                     !.sent = h.sent \o k.sent,
                                                     !.raised = k.exc])
                         /\ saga_jobs' = IF k.exc = "none"
                                         THEN RemoveFirst(saga_jobs, j)
                                         ELSE saga_jobs
                  ELSE Terminal(j, h.job,
                                PutStatuses(h.sent) \o << "harvest_ok" >>,
                                harvested)
       ELSE IF state = FAILED
       THEN Terminal(j, nmpi_jobs[j], <<>>, polled)
       ELSE IF saga_job_attribute("job") # "ok"
       THEN /\ Commit(j, nmpi_jobs[j], <<>>,
                      [polled EXCEPT !.raised = saga_job_attribute("job")])
            /\ UNCHANGED saga_jobs
       ELSE IF state = CANCELED
       THEN Terminal(j, nmpi_jobs[j], <<>>, polled)
       ELSE /\ Commit(j, nmpi_jobs[j], <<>>, polled)
            /\ UNCHANGED saga_jobs
    /\ idx' = idx + 1
    /\ UNCHANGED << method, fetched, pending_jobs, pending_nmpi_jobs, sidx,
                    saga_state, ops,
                    call >>

\* -------------------------------------------------------------- environment
Running == pc \in {"submit", "wait_head", "wait_for"}

\* The runner reads the server's records only in get_next_job, so the
\* operator's calls are interleaved with the retrieval.
Retrieving == pc = "retrieve"

\* the backend moves a saga job on; done, failed and canceled are final
BackendStep(j) ==
    /\ Running
    /\ \/ /\ saga_state[j] = PENDING
          /\ \E s \in {RUNNING, FAILED, CANCELED} :
               saga_state' = [saga_state EXCEPT ![j] = s]
       \/ /\ saga_state[j] = RUNNING
          /\ \E s \in {DONE, FAILED, CANCELED} :
               saga_state' = [saga_state EXCEPT ![j] = s]
    /\ UNCHANGED << pc, method, exc, qstatus, trace, fetched, pending_jobs,
                    pending_nmpi_jobs, sidx, saga_jobs, idx, nmpi_jobs, last,
                    ops,
                    call >>

\* the record an operator's client holds of job j
OperatorCopy(j) == [NewJob EXCEPT !.status = qstatus[j]]

\* an operator calls HardwareClient.reset_job on a job of the queue
OperatorReset(j) ==
    /\ Retrieving
    /\ ops < MaxResets
    /\ qstatus[j] # "absent"
    /\ qstatus' = [qstatus EXCEPT
                     ![j] = StatusAfter(@, reset_job(OperatorCopy(j)).sent)]
    /\ ops' = ops + 1
    /\ UNCHANGED << pc, method, exc, trace, fetched, pending_jobs,
                    pending_nmpi_jobs, sidx, saga_jobs, idx, nmpi_jobs,
                    saga_state, last,
                    call >>

\* an operator calls HardwareClient.kill_job on a job of the queue
OperatorKill(j) ==
    /\ Retrieving
    /\ ops < MaxResets
    /\ qstatus[j] # "absent"
    /\ LET k == kill_job(OperatorCopy(j), "operator", "ok") IN
       /\ k.exc = "none"
       /\ qstatus' = [qstatus EXCEPT ![j] = StatusAfter(@, k.sent)]
    /\ ops' = ops + 1
    /\ UNCHANGED << pc, method, exc, trace, fetched, pending_jobs,
                    pending_nmpi_jobs, sidx, saga_jobs, idx, nmpi_jobs,
                    saga_state, last,
                    call >>

\* ------------------------------------------------------------ specification
Next ==
    \/ CallNext
    \/ RetrieveStep
    \/ CallSubmitJobs
    \/ SubmitStep
    \/ SubmitReturn
    \/ CallWaitOnCompletion
    \/ WaitRound
    \/ WaitRoundEnd
    \/ WaitPollStep
    \/ \E j \in JobIds : BackendStep(j)
    \/ \E j \in JobIds : OperatorReset(j)
    \/ \E j \in JobIds : OperatorKill(j)

Spec == Init /\ [][Next]_vars

\* ------------------------------------------- the module's functions, called
\* A client imports the module and calls its functions directly; the runner
\* is not started.
InitFunctions ==
    /\ Init
    /\ qstatus = [j \in JobIds |-> "absent"]

UnchangedRunner ==
    UNCHANGED << pc, method, exc, qstatus, trace, fetched, pending_jobs,
                 pending_nmpi_jobs, sidx, saga_jobs, idx, nmpi_jobs,
                 saga_state, last, ops >>

\* truncate_string(stream, max_length)
CallTruncateString ==
    /\ \E len \in 0..MaxLen, max_length \in 0..MaxSize :
          LET stream == Piece("s", 0, len) IN
          call' = [fn |-> "truncate_string",
                   args |-> << stream, max_length >>,
                   result |-> truncate_string(stream, max_length),
                   again |-> <<>>]
    /\ UnchangedRunner

\* the job dicts handed to a status function: any status, a log of earlier
\* lines or none, output_data and terminal fields set or not
StatusNames == {"submitted", "running", "finished", "error"}
EarlierLogs ==
    { <<>>, << Line("running") >>,
      << Line("Job ID"), Line("pending"), Piece("stdout", 0, 3) >> }
JobDicts ==
    [status : StatusNames, log : EarlierLogs, output_data : {<<>>, << 1 >>},
     terminal_fields : BOOLEAN]

\* default_job_states[state](nmpi_job, saga_job), and the same call again
\* on the dict it returned; out is what read_output(saga_job) gives
CallStatusFunction ==
    /\ \E state \in default_job_states, job \in JobDicts, out \in Outputs :
          LET once == set_status(state, job, out) IN
          call' = [fn |-> "set_status",
                   args |-> << state, job, out >>,
                   result |-> once,
                   again |-> set_status(state, once, out)]
    /\ UnchangedRunner

\* reference times around the times of the files
Timestamps == -1..2

\* _find_new_data_files(root, timestamp) on a directory holding tree
CallFindNewDataFiles ==
    /\ \E tree \in Trees, timestamp \in Timestamps :
          call' = [fn |-> "_find_new_data_files",
                   args |-> << tree, timestamp >>,
                   result |-> _find_new_data_files(tree, timestamp),
                   again |-> <<>>]
    /\ UnchangedRunner

NextFunctions ==
    \/ CallTruncateString
    \/ CallStatusFunction
    \/ CallFindNewDataFiles

SpecFunctions == InitFunctions /\ [][NextFunctions]_vars

\* ------------------------------------------------------------------ claims
TerminalStates == {DONE, FAILED, CANCELED}
TerminalStatuses == {"finished", "error"}

\* the job was handed to wait_on_completion in the in-flight list
WasInFlight(j) == saga_state[j] # "none"

Count(s, S) == Cardinality({i \in 1..Len(s) : s[i] \in S})

MethodEnded == pc \in {"raised", "returned"}

\* C1: every in-flight job whose backend state ended in done, failed or
\* canceled gets exactly one PUT with a terminal status (finished or error):
\* never two, and one once the job has left the in-flight list or the
\* method has ended.
C1_ExactlyOneTerminalPush ==
    \A j \in JobIds :
        (WasInFlight(j) /\ saga_state[j] \in TerminalStates) =>
            /\ Count(trace[j], TerminalStatuses) <= 1
            /\ (~InSeq(j, saga_jobs) \/ MethodEnded) =>
                   Count(trace[j], TerminalStatuses) = 1

\* the status changes the original invariant allows
OriginalChanges ==
    { << "submitted", "running" >>, << "running", "finished" >>,
      << "running", "error" >> }

\* the status changes the code makes
CodeChanges ==
    OriginalChanges
        \cup { << "submitted", "finished" >>, << "submitted", "error" >> }

\* every change that the status functions or kill_job make to the status of
\* a job record (the runner's dict, or the operator's in its kill_job call)
\* is in allowed; reset_job sets the status back to submitted
ChangesWithin(allowed) ==
    \A j \in JobIds :
        /\ nmpi_jobs'[j].status # nmpi_jobs[j].status =>
               << nmpi_jobs[j].status, nmpi_jobs'[j].status >> \in allowed
        /\ (OperatorKill(j) /\ qstatus'[j] # qstatus[j]) =>
               << qstatus[j], qstatus'[j] >> \in allowed
        /\ OperatorReset(j) => qstatus'[j] = "submitted"

\* C2 (as stated): every status change is submitted->running,
\* running->finished or running->error, or a reset to submitted.
C2_OriginalTransitions == [][ChangesWithin(OriginalChanges)]_vars

\* C2 (amended): every status change is submitted->running,
\* submitted->finished, submitted->error, running->finished or
\* running->error, or a reset to submitted; nothing changes a status that
\* is finished or error except the reset.
C2_Transitions == [][ChangesWithin(CodeChanges)]_vars

\* C2 witness: a job went submitted -> running -> finished, and the runner
\* was refused the kill of a finished job
C2_Witness ==
    /\ last.op = "wait_on_completion"
    /\ last.raised = "CannotKill"
    /\ nmpi_jobs[last.job].status = "finished"
    /\ \E j \in JobIds :
          /\ trace[j] = << "running", "running", "harvest_ok", "finished" >>
          /\ nmpi_jobs[j].status = "finished"

\* the distinct jobs in h before the first answer that is no job (0) or a
\* job already collected
RECURSIVE Collected(_, _)
Collected(h, acc) ==
    IF h = <<>> \/ Head(h) = 0 \/ InSeq(Head(h), acc) THEN acc
    ELSE Collected(Tail(h), Append(acc, Head(h)))

RetrieveReturned == method = "next" /\ pc # "retrieve" /\ pc # "idle"

\* C3: retrieve_pending_jobs returns, in fetch order, every distinct job
\* that get_next_job returned before the first call that returned no job
\* or a job already collected.
C3_ReturnsFetchedJobs ==
    (RetrieveReturned /\ Len(fetched) < MaxFetch) =>
        pending_nmpi_jobs = Collected(fetched, <<>>)

\* C4: the retrieval loop stops at the first get_next_job call that returns
\* no job or a job already returned in this cycle: while the loop runs, all
\* answers so far are jobs and no job was answered twice.
C4_StopsAtDuplicate ==
    pc = "retrieve" =>
        \A i \in 1..Len(fetched) :
            /\ fetched[i] # 0
            /\ \A k \in 1..Len(fetched) : fetched[k] = fetched[i] => k = i

\* C5: wait_on_completion returns as soon as the in-flight list is empty:
\* the for loop never starts over an empty list.
C5_ReturnsWhenEmpty ==
    ~(pc = "wait_for" /\ idx = 1 /\ saga_jobs = <<>>)

\* C6: no error escapes submit_jobs; a job whose pre-submission step failed
\* is killed with a message and is not in the in-flight list.
C6_SubmitFailureKillsOnlyThatJob ==
    last.op = "submit_jobs" =>
        /\ last.raised = "none"
        /\ ~InSeq(last.job, saga_jobs) =>
               (last.killed # "none" /\ nmpi_jobs[last.job].status = "error")

\* C7: a poll that sees pending or running raises no error, leaves the job
\* in the in-flight list and performs no update, kill or harvest for it.
C7_NonTerminalPollContinues ==
    (last.op = "wait_on_completion" /\ last.polled \in {PENDING, RUNNING}) =>
        /\ last.raised = "none"
        /\ InSeq(last.job, saga_jobs)
        /\ last.sent = <<>>
        /\ last.harvest = "none"
        /\ last.killed = "none"

\* C8: when the harvest of a done job fails (and the PUTs of kill_job go
\* through), kill_job is called with the failure's message, the job's
\* status is error, the job has left the in-flight list and no error ends
\* the cycle, whatever state was seen right after submission.
C8_HarvestFailureKills ==
    (/\ last.op = "wait_on_completion"
     /\ last.polled = DONE
     /\ last.harvest \notin {"none", "ok"}
     /\ last.raised # "PutFailed") =>
        /\ last.killed = last.harvest
        /\ nmpi_jobs[last.job].status = "error"
        /\ qstatus[last.job] = "error"
        /\ ~InSeq(last.job, saga_jobs)
        /\ last.raised = "none"

\* C9: every PUT of a job with status finished comes after a successful
\* harvest of that job.
C9_FinishedOnlyAfterHarvest ==
    \A j \in JobIds : \A i \in 1..Len(trace[j]) :
        trace[j][i] = "finished" =>
            \E k \in 1..(i - 1) : trace[j][k] = "harvest_ok"

\* The block the claim describes for a done job: the finished line, the
\* stdout section, then the stderr section; a section longer than the
\* maximum keeps its first and last halves around the marker.
Section(name, len) ==
    IF len <= MAX_LOG_SIZE THEN << Piece(name, 0, len) >>
    ELSE << Piece(name, 0, MAX_LOG_SIZE \div 2), TRUNCATION_MARKER,
            Piece(name, len - MAX_LOG_SIZE \div 2, len) >>

ExpectedDoneBlock(so, se) ==
    << Line("finished"), NL2 >> \o Section("stdout", so) \o << NL2 >>
        \o Section("stderr", se)

NoRepeats(s) == \A i, k \in 1..Len(s) : s[i] = s[k] => i = k

HarvestedOk ==
    /\ last.op = "wait_on_completion"
    /\ last.polled = DONE
    /\ last.harvest = "ok"

\* C10: after a done job's harvest succeeded the job's status is finished,
\* output_data is what it was plus one entry per selected file, none
\* twice, and the log text pushed is the finished line, the truncated
\* stdout, then the truncated stderr.
C10_DoneAndHarvested ==
    HarvestedOk =>
        /\ nmpi_jobs[last.job].status = "finished"
        /\ nmpi_jobs[last.job].output_data = last.before \o last.files
        /\ NoRepeats(last.files)
        /\ last.raised = "none" =>
              /\ Len(last.sent) = 3
              /\ last.sent[2].res = "job"
              /\ last.sent[2].status = "finished"
              /\ last.sent[2].output_data = last.before \o last.files
              /\ last.sent[3].res = "log"
              /\ \E so \in StreamLens \cup {0}, se \in StreamLens \cup {0} :
                    last.sent[3].content = ExpectedDoneBlock(so, se)

\* C10 witness: a harvest of two files succeeded and the pushed log has a
\* truncated stdout and a whole stderr
C10_Witness ==
    /\ HarvestedOk
    /\ last.raised = "none"
    /\ Len(last.files) = 2
    /\ Len(last.sent) = 3
    /\ last.sent[3].content =
          ExpectedDoneBlock(MAX_LOG_SIZE + 1, MAX_LOG_SIZE)

\* The block the claim describes for a failed job: the failed line, the
\* truncated stdout, the separator, the truncated stderr.
ExpectedFailedBlock(so, se) ==
    << Line("failed") >> \o Section("stdout", so) \o << FAILED_SEPARATOR >>
        \o Section("stderr", se)

PolledFailed == last.op = "wait_on_completion" /\ last.polled = FAILED

\* C11: after a poll saw failed the job's status is error, no harvest ran
\* (output_data is what it was, no file was selected), the job has left
\* the in-flight list, and the log pushed is the failed line with the
\* truncated stdout and stderr.
C11_FailedEndsInError ==
    PolledFailed =>
        /\ nmpi_jobs[last.job].status = "error"
        /\ last.harvest = "none"
        /\ last.files = <<>>
        /\ nmpi_jobs[last.job].output_data = last.before
        /\ ~InSeq("harvest_ok", trace[last.job])
        /\ ~InSeq("harvest_failed", trace[last.job])
        /\ ~InSeq(last.job, saga_jobs)
        /\ last.raised = "none" =>
              /\ Len(last.sent) = 2
              /\ last.sent[1] = JobPut(nmpi_jobs[last.job])
              /\ last.sent[2].res = "log"
              /\ \E so \in StreamLens \cup {0}, se \in StreamLens \cup {0} :
                    last.sent[2].content = ExpectedFailedBlock(so, se)

\* C11 witness: a running job was seen failed; the log pushed has a whole
\* stdout and a truncated stderr
C11_Witness ==
    /\ PolledFailed
    /\ last.pre = "running"
    /\ last.raised = "none"
    /\ qstatus[last.job] = "error"
    /\ Len(last.sent) = 2
    /\ last.sent[2].content =
          ExpectedFailedBlock(MAX_LOG_SIZE, MAX_LOG_SIZE + 1)

\* C12: a poll that sees canceled raises no error: the job leaves the
\* in-flight list and a log with a canceled line is pushed for it.
C12_CanceledIsTerminal ==
    (last.op = "wait_on_completion" /\ last.polled = CANCELED) =>
        /\ last.raised = "none"
        /\ ~InSeq(last.job, saga_jobs)
        /\ \E i \in 1..Len(last.sent) :
              /\ last.sent[i].res = "log"
              /\ InSeq(Line("canceled"), last.sent[i].content)

\* wait_on_completion works on the list object it is given, which is the
\* one next() returns (lines 500-502)
WaitKeepsEntries ==
    pc \in {"wait_head", "wait_for"} =>
        \A j \in JobIds : InSeq(j, saga_jobs) => InSeq(j, saga_jobs')

\* C13: waiting removes no entry from the collection of submitted jobs that
\* next() returns: a job that finished, failed or was killed during the
\* wait is still in it.
C13_WaitKeepsSubmittedJobs == [][WaitKeepsEntries]_vars

\* the runner called kill_job in its last step
KillCalled == last.killed # "none"

IsPrefix(s, t) == Len(s) <= Len(t) /\ SubSeq(t, 1, Len(s)) = s

\* C14: kill_job on a job whose status is not submitted or running raises
\* and changes nothing (the record keeps its status, no request is sent);
\* on a submitted or running job it sets the status to error and pushes
\* the operator message followed by the given message.
C14_KillJobPrecondition ==
    /\ KillCalled =>
          IF last.pre \notin {"submitted", "running"}
          THEN /\ last.raised = "CannotKill"
               /\ nmpi_jobs[last.job].status = last.pre
               /\ IsPrefix(nmpi_jobs[last.job].output_data,
                           last.before \o last.files)
               /\ last.sent = <<>>
          ELSE /\ nmpi_jobs[last.job].status = "error"
               /\ last.raised = "none" =>
                     /\ Len(last.sent) = 2
                     /\ last.sent[1] = JobPut(nmpi_jobs[last.job])
                     /\ last.sent[2] =
                           LogPut(<< INTERNAL_ERROR, Line(last.killed) >>)
    /\ \A j \in JobIds :
          qstatus[j] \in {"finished", "error"} =>
              kill_job(OperatorCopy(j), "operator", "ok") =
                  [job |-> OperatorCopy(j), sent |-> <<>>,
                   exc |-> "CannotKill"]

\* C14 witness: a running job was killed after its harvest failed and both
\* PUTs reached the server, while another job is finished
C14_Witness ==
    /\ KillCalled
    /\ last.pre = "running"
    /\ last.raised = "none"
    /\ qstatus[last.job] = "error"
    /\ Len(last.sent) = 2
    /\ \E j \in JobIds : qstatus[j] = "finished"

\* _update_status ran in the last step and one of the PUTs of its
\* update_job call did not reach the server (a status function always
\* leaves a log, so a complete update is a job PUT and a log PUT; a
\* successful harvest has sent one job PUT before)
UpdateStatusFailed ==
    \/ /\ last.op = "submit_jobs"
       /\ last.polled \in default_job_states
       /\ Len(last.sent) < 2
    \/ /\ last.op = "wait_on_completion"
       /\ last.polled = FAILED
       /\ Len(last.sent) < 2
    \/ /\ last.op = "wait_on_completion"
       /\ last.polled = DONE
       /\ last.harvest = "ok"
       /\ Len(last.sent) < 3

\* the final update_job of the harvest failed in the last step
HarvestUpdateFailed ==
    last.op = "wait_on_completion" /\ last.harvest = "update_job"

C16_TruncatedLengthBound ==
    call.fn = "truncate_string" =>
        TextLen(call.result) <= call.args[2] + PieceLen(TRUNCATION_MARKER)

StatusCalled == call.fn = "set_status"

\* the status the claim gives for a backend state
StatusFor(state) ==
    CASE state = PENDING -> "submitted"
      [] state = RUNNING -> "running"
      [] state = DONE -> "finished"
      [] state = FAILED -> "error"

\* C17: the status functions map pending to submitted, running to running,
\* done to finished and failed to error, and each appends to the log: the
\* log before the call is a proper prefix of the log after it.
C17_StatusMappingAppends ==
    StatusCalled =>
        /\ call.result.status = StatusFor(call.args[1])
        /\ IsPrefix(call.args[2].log, call.result.log)
        /\ Len(call.result.log) > Len(call.args[2].log)

\* C17 witness: job_running on a job with earlier log lines
C17_Witness ==
    /\ StatusCalled
    /\ call.args[1] = RUNNING
    /\ call.args[2].log # <<>>
    /\ call.args[2].status = "submitted"
    /\ call.result.status = "running"

\* what a call appended to the log
Appended(before, after) == SubSeq(after.log, Len(before.log) + 1, Len(after.log))

\* C18: a second application of the same status function leaves the status
\* as the first produced it, appends the same block again (a line stands
\* for its text with any timestamp) and changes no field other than
\* status, log and the terminal fields.
C18_StatusFunctionTwice ==
    StatusCalled =>
        /\ call.again.status = call.result.status
        /\ IsPrefix(call.result.log, call.again.log)
        /\ Appended(call.result, call.again) =
              Appended(call.args[2], call.result)
        /\ call.again.log =
              call.args[2].log \o Appended(call.args[2], call.result)
                  \o Appended(call.args[2], call.result)
        /\ call.result.output_data = call.args[2].output_data
        /\ call.again.output_data = call.args[2].output_data

\* C18 witness: job_pending twice on a job with an earlier log
C18_Witness ==
    /\ StatusCalled
    /\ call.args[1] = PENDING
    /\ call.args[2].log # <<>>
    /\ Len(call.again.log) = Len(call.args[2].log) + 4

\* the files of the tree that the claim selects, each as its path below
\* the root: the directories above it, then its name
ExpectedNewFiles(tree, timestamp) ==
    { f.dirs \o << f.name >> : f \in
        { g \in tree :
            /\ g.mtime >= timestamp
            /\ ~ \E i \in 1..Len(g.dirs) :
                   g.dirs[i] \in {".smt", ".hg", ".svn", ".git", ".bzr"}
            /\ g.ext # ".pyc" } }

\* C19: _find_new_data_files returns exactly the files modified at or after
\* the timestamp that are under no ignored directory at any depth and do
\* not end in .pyc, each once, as a path relative to the root.
C19_FindNewDataFilesExact ==
    call.fn = "_find_new_data_files" =>
        /\ { call.result[i] : i \in 1..Len(call.result) } =
              ExpectedNewFiles(call.args[1], call.args[2])
        /\ NoRepeats(call.result)

\* C19 witness: of a file modified exactly at the timestamp and a newer
\* file below sub/.svn, the first is returned
C19_Witness ==
    /\ call.fn = "_find_new_data_files"
    /\ call.args[1] = { File(1, <<>>, ".dat", 0),
                        File(6, << "sub", ".svn" >>, ".dat", 1) }
    /\ call.args[2] = 0
    /\ call.result = << << 1 >> >>

\* after a job was polled, the for loop goes on with the job that followed
\* it in the list
NextInOrder ==
    (pc = "wait_for" /\ pc' = "wait_for" /\ idx' = idx + 1
       /\ idx + 1 <= Len(saga_jobs)) =>
        /\ idx' <= Len(saga_jobs')
        /\ saga_jobs'[idx'] = saga_jobs[idx + 1]

\* C20: within a poll round no in-flight job is skipped: when a job is
\* removed from the list during the round, the for loop still polls the
\* job that followed it.
C20_NoJobSkippedInRound == [][NextInOrder]_vars

\* C21: for done and for failed alike the status function sets the
\* completion timestamp and the resource-usage and provenance fields.
C21_TerminalFieldsSet ==
    (StatusCalled /\ call.args[1] \in {DONE, FAILED}) =>
        call.result.terminal_fields

\* what the claim gives for truncate_string(s, M), s being the slice
\* [0, len) of its source
ExpectedTruncation(stream, M) ==
    IF PieceLen(stream) <= M THEN << stream >>
    ELSE << Piece(stream.src, 0, M \div 2), TRUNCATION_MARKER,
            Piece(stream.src, PieceLen(stream) - M \div 2, PieceLen(stream)) >>

\* C22: truncate_string(s, M) is s when len(s) <= M, and otherwise the first
\* floor(M/2) characters of s, the marker and the last floor(M/2)
\* characters of s; job_done and job_failed truncate stdout and stderr
\* each by its own length.
C22_TruncationHalves ==
    /\ call.fn = "truncate_string" =>
          call.result = ExpectedTruncation(call.args[1], call.args[2])
    /\ (StatusCalled /\ call.args[1] = DONE) =>
          Appended(call.args[2], call.result) =
              ExpectedDoneBlock(PieceLen(call.args[3].stdout),
                                PieceLen(call.args[3].stderr))
    /\ (StatusCalled /\ call.args[1] = FAILED) =>
          Appended(call.args[2], call.result) =
              ExpectedFailedBlock(PieceLen(call.args[3].stdout),
                                  PieceLen(call.args[3].stderr))

\* the names of the steps in steps, in order, without those in skip
RECURSIVE StepNames(_, _)
StepNames(steps, skip) ==
    IF steps = <<>> THEN <<>>
    ELSE (IF Head(steps).step \in skip THEN <<>>
          ELSE << Head(steps).step >>) \o StepNames(Tail(steps), skip)

\* in steps, every a comes before every b
AllBefore(steps, a, b) ==
    \A i, k \in 1..Len(steps) :
        (steps[i].step = a /\ steps[k].step = b) => i < k

\* run() was called in the last step and performed its steps in order:
\* a prefix of order, no step after one that failed, and the start time
\* taken after provisioning and input fetch and before the backend start
StepsFollow(order) ==
    last.op = "submit_jobs" =>
        /\ last.steps # <<>>
        /\ IsPrefix(StepNames(last.steps, {"start_time"}), order)
        /\ \A i \in 1..(Len(last.steps) - 1) : last.steps[i].ok
        /\ AllBefore(last.steps, "get_code", "start_time")
        /\ AllBefore(last.steps, "get_input_data", "start_time")
        /\ AllBefore(last.steps, "start_time", "run")

C24_FailedHarvestLeavesOutputData ==
    (last.op = "wait_on_completion"
       /\ last.harvest \in {"copy", "create_data_item"}) =>
        /\ nmpi_jobs[last.job].output_data = last.before
        /\ \A i \in 1..Len(last.sent) :
              last.sent[i].res = "job" =>
                  last.sent[i].output_data = last.before

\* the log PUTs among the requests in sent
RECURSIVE LogContents(_)
LogContents(sent) ==
    IF sent = <<>> THEN <<>>
    ELSE (IF Head(sent).res = "log" THEN << Head(sent).content >> ELSE <<>>)
         \o LogContents(Tail(sent))

\* the text one call of a status function or of kill_job appends
BlocksOfOneCall ==
    { << Line("Job ID"), Line("pending") >>, << Line("running") >>,
      << INTERNAL_ERROR, Line(last.killed) >> }
      \cup { ExpectedDoneBlock(so, se) :
                so \in StreamLens \cup {0}, se \in StreamLens \cup {0} }
      \cup { ExpectedFailedBlock(so, se) :
                so \in StreamLens \cup {0}, se \in StreamLens \cup {0} }

\* C25: update_job and kill_job take the log out of the job dict when they
\* push it: after every step the dict holds no log text, and a log push
\* carries just the block appended since the previous push for that job.
C25_LogPushedOnce ==
    /\ \A j \in JobIds : nmpi_jobs[j].log = <<>>
    /\ last.op \in {"submit_jobs", "wait_on_completion"} =>
          /\ Len(LogContents(last.sent)) <= 1
          /\ \A i \in 1..Len(LogContents(last.sent)) :
                LogContents(last.sent)[i] \in BlocksOfOneCall

\* C25 witness: a job whose running line was pushed after the submission
\* is done and harvested; the second log push is the finished block alone
C25_Witness ==
    /\ HarvestedOk
    /\ last.pre = "running"
    /\ last.raised = "none"
    /\ trace[last.job] = << "running", "running", "harvest_ok", "finished" >>
    /\ LogContents(last.sent) =
          << ExpectedDoneBlock(MAX_LOG_SIZE, MAX_LOG_SIZE) >>
    /\ nmpi_jobs[last.job].log = <<>>

====
